---- MODULE Spec2Model ----
(***************************************************************************)
(* HD44780U LCD driver over a PCF8574 I2C expander (src/LCD.py).           *)
(*                                                                         *)
(* The LCD object is the state: geometry, the three display-control flags. *)
(* Every public method is one atomic action.  The traffic a call produces  *)
(* on the I2C bus and on the delay primitive is recorded in `log`, with    *)
(* the call's arguments in `call`, its outcome in `outcome` and its return *)
(* value in `ret`.  Text is a sequence of code points.  `enable` is the     *)
(* level of the expander's enable output: bit 2 of the last byte the       *)
(* transport accepted, which stays on the port between calls.              *)
(***************************************************************************)
EXTENDS Integers, Sequences, FiniteSets, TLC

VARIABLES rows, cols, display_on, cursor_on, blink_on, pc, call, outcome, ret, log,
          enable

vars == <<rows, cols, display_on, cursor_on, blink_on, pc, call, outcome, ret, log,
          enable>>

(***************************************************************************)
(* Bounds of the model                                                     *)
(***************************************************************************)
\* longest text over Alphabet handed to the text operations
MaxLen == 5
\* the transport may fail at its 1st .. MaxFail-th write of a call (0: never)
MaxFail == 3
\* write_character is tried on every single code point 0 .. MaxCodePoint
MaxCodePoint == 257
\* widest configured display; columns beyond 44 overflow the 7-bit DDRAM address
\* and row 3, column 52 overflows into the display-control commands
MaxCols == 53

(***************************************************************************)
(* Module constants, src/LCD.py lines 5-25                                 *)
(***************************************************************************)
LCD_CLEARDISPLAY == 1
LCD_DISPLAYCONTROL == 8
LCD_DISPLAYON == 4
LCD_CURSORON == 2
LCD_BLINKON == 1
LCD_ENTRYMODESET == 4
LCD_ENTRYLEFT == 2
LCD_ENABLE_BIT == 4
LCD_BACKLIGHT == 8
LCD_COMMAND == 0
LCD_CHARACTER == 1
LCD_RETURNHOME == 2
LCD_SET_DDRAM == 128
\* time.sleep_us(600) in __toggle_enable
ENABLE_DELAY_US == 600
\* row_offsets = [0x00, 0x40, 0x14, 0x54] in set_cursor
row_offsets == <<0, 64, 20, 84>>

(***************************************************************************)
(* Python integer operators on non-negative integers                       *)
(***************************************************************************)
RECURSIVE BitAnd(_, _)
BitAnd(a, b) ==
  IF a = 0 \/ b = 0 THEN 0
  ELSE (a % 2) * (b % 2) + 2 * BitAnd(a \div 2, b \div 2)

RECURSIVE BitOr(_, _)
BitOr(a, b) ==
  IF a = 0 THEN b
  ELSE IF b = 0 THEN a
  ELSE (IF a % 2 = 1 \/ b % 2 = 1 THEN 1 ELSE 0) + 2 * BitOr(a \div 2, b \div 2)

\* a & ~m
BitAndNot(a, m) == a - BitAnd(a, m)

\* a << n
ShiftLeft(a, n) == a * (2 ^ n)

(***************************************************************************)
(* Text: a str is a sequence of code points; NotAStr stands for an         *)
(* argument that is not a str (type(x) is not str).                        *)
(***************************************************************************)
NotAStr == <<-1>>
IsStr(s) == s # NotAStr

\* MicroPython unichar_isspace: the characters str.split() and rstrip() drop
WhiteSpace == {9, 10, 11, 12, 13, 32}

\* mutant of Take: the slice of an oversized word is empty
TakeNothing(s, n) == <<>>

\* s[:n] and s[n:] for n >= 0
Take(s, n) == SubSeq(s, 1, IF n < Len(s) THEN n ELSE Len(s))

\* mutant of Drop: the split drops one character too many
DropOneMore(s, n) == SubSeq(s, (IF n < Len(s) THEN n ELSE Len(s)) + 2, Len(s))

Drop(s, n) == SubSeq(s, (IF n < Len(s) THEN n ELSE Len(s)) + 1, Len(s))

\* str.split(): the maximal runs of non-whitespace characters, in order
RECURSIVE SplitFrom(_, _, _, _)
SplitFrom(s, i, cur, acc) ==
  IF i > Len(s) THEN (IF cur = <<>> THEN acc ELSE Append(acc, cur))
  ELSE IF s[i] \in WhiteSpace
       THEN SplitFrom(s, i + 1, <<>>, IF cur = <<>> THEN acc ELSE Append(acc, cur))
       ELSE SplitFrom(s, i + 1, Append(cur, s[i]), acc)

Split(s) == SplitFrom(s, 1, <<>>, <<>>)

\* mutant of RStrip: the line is written with its trailing space
RStripNothing(s) == s

\* str.rstrip(): drop trailing whitespace
RECURSIVE RStrip(_)
RStrip(s) ==
  IF s # <<>> /\ s[Len(s)] \in WhiteSpace THEN RStrip(SubSeq(s, 1, Len(s) - 1)) ELSE s

(***************************************************************************)
(* Bus context threaded through one call: the events so far, the outcome   *)
(* ("ok" or the exception that is propagating), and `fail`, the number of  *)
(* the transport write that raises OSError (0: the transport never fails). *)
(***************************************************************************)
Ev(kind, v) == [kind |-> kind, v |-> v]

NewCtx(fail) == [ev |-> <<>>, out |-> "ok", fail |-> fail]

Raise(ctx, exc) == [ctx EXCEPT !.out = exc]

\* time.sleep_us(n)
SleepUs(ctx, n) ==
  IF ctx.out # "ok" THEN ctx
  ELSE [ctx EXCEPT !.ev = Append(@, Ev("sleep", n))]

\* mutant of WriteI2CByte: a write the transport refuses is tried once more
WriteI2CByteRetry(ctx, byte) ==
  IF ctx.out # "ok" THEN ctx
  ELSE IF ~(0 <= byte /\ byte <= 255) THEN Raise(ctx, "LCDException")
  ELSE IF ctx.fail = 1
       THEN [ctx EXCEPT !.ev = @ \o <<Ev("failed", byte), Ev("write", byte)>>, !.fail = 0]
       ELSE [ctx EXCEPT !.ev = Append(@, Ev("write", byte)),
                        !.fail = IF @ = 0 THEN 0 ELSE @ - 1]

\* LCD.__write_i2c_byte
WriteI2CByte(ctx, byte) ==
  IF ctx.out # "ok" THEN ctx
  ELSE IF ~(0 <= byte /\ byte <= 255) THEN Raise(ctx, "LCDException")
  ELSE IF ctx.fail = 1
       THEN [ctx EXCEPT !.ev = Append(@, Ev("failed", byte)), !.out = "OSError", !.fail = 0]
       ELSE [ctx EXCEPT !.ev = Append(@, Ev("write", byte)),
                        !.fail = IF @ = 0 THEN 0 ELSE @ - 1]

\* the enable output after the events ev of a call, e being its level before:
\* i2c.writeto puts the byte on the port, a write that raises does not
EnableAfter(ev, e) ==
  LET w == SelectSeq(ev, LAMBDA x : x.kind = "write")
  IN  IF w = <<>> THEN e ELSE BitAnd(w[Len(w)].v, LCD_ENABLE_BIT) # 0

\* mutant of ToggleEnable: enable is dropped without the wait after raising it
ToggleEnableNoHold(ctx, value) ==
  LET c1 == SleepUs(ctx, ENABLE_DELAY_US)
      c2 == WriteI2CByte(c1, BitOr(value, LCD_ENABLE_BIT))
      c4 == WriteI2CByte(c2, BitAndNot(value, LCD_ENABLE_BIT))
  IN  SleepUs(c4, ENABLE_DELAY_US)

\* LCD.__toggle_enable
ToggleEnable(ctx, value) ==
  LET c1 == SleepUs(ctx, ENABLE_DELAY_US)
      c2 == WriteI2CByte(c1, BitOr(value, LCD_ENABLE_BIT))
      c3 == SleepUs(c2, ENABLE_DELAY_US)
      c4 == WriteI2CByte(c3, BitAndNot(value, LCD_ENABLE_BIT))
  IN  SleepUs(c4, ENABLE_DELAY_US)

\* body of the for loop of LCD.__send_byte
SendNibble(ctx, byte) == ToggleEnable(WriteI2CByte(ctx, byte), byte)

\* mutant of SendByte: the low nibble is sent before the high nibble
SendByteLowFirst(ctx, byte, mode) ==
  LET first  == BitOr(BitOr(mode, BitAnd(byte, 240)), ShiftLeft(1, 3))
      second == BitOr(BitOr(mode, BitAnd(ShiftLeft(byte, 4), 240)), ShiftLeft(1, 3))
  IN  IF ctx.out # "ok" THEN ctx
      ELSE SendNibble(SendNibble(ctx, second), first)

\* LCD.__send_byte
SendByte(ctx, byte, mode) ==
  LET first  == BitOr(BitOr(mode, BitAnd(byte, 240)), ShiftLeft(1, 3))
      second == BitOr(BitOr(mode, BitAnd(ShiftLeft(byte, 4), 240)), ShiftLeft(1, 3))
  IN  IF ctx.out # "ok" THEN ctx
      ELSE SendNibble(SendNibble(ctx, first), second)

\* mutant of CursorValue: the rows laid out one after the other in DDRAM
CursorValueContiguous(row, col) == BitOr(LCD_SET_DDRAM, col) + 20 * row

\* the value LCD.set_cursor hands to __send_byte
CursorValue(row, col) == BitOr(LCD_SET_DDRAM, col) + row_offsets[row + 1]

\* mutant of SetCursorCtx: the column one past the last is accepted
SetCursorCtxLoose(ctx, ncols, row, col) ==
  IF ctx.out # "ok" THEN ctx
  ELSE IF row \notin 0 .. (Len(row_offsets) - 1) THEN Raise(ctx, "LCDException")
  ELSE IF ~(0 <= col /\ col <= ncols) THEN Raise(ctx, "LCDException")
  ELSE SendByte(ctx, CursorValue(row, col), LCD_COMMAND)

\* LCD.set_cursor
SetCursorCtx(ctx, ncols, row, col) ==
  IF ctx.out # "ok" THEN ctx
  ELSE IF row \notin 0 .. (Len(row_offsets) - 1) THEN Raise(ctx, "LCDException")
  ELSE IF ~(0 <= col /\ col < ncols) THEN Raise(ctx, "LCDException")
  ELSE SendByte(ctx, CursorValue(row, col), LCD_COMMAND)

\* mutant of WriteCharacterCtx: the character is sent with RS low
WriteCharacterCtxAsCommand(ctx, character) ==
  IF ctx.out # "ok" THEN ctx
  ELSE IF ~IsStr(character) THEN Raise(ctx, "LCDException")
  ELSE IF ~(Len(character) = 1) THEN Raise(ctx, "LCDException")
  ELSE SendByte(ctx, character[1], LCD_COMMAND)

\* LCD.write_character; ord(character) is the code point itself
WriteCharacterCtx(ctx, character) ==
  IF ctx.out # "ok" THEN ctx
  ELSE IF ~IsStr(character) THEN Raise(ctx, "LCDException")
  ELSE IF ~(Len(character) = 1) THEN Raise(ctx, "LCDException")
  ELSE SendByte(ctx, character[1], LCD_CHARACTER)

\* the for loop of LCD.write_string
RECURSIVE WriteChars(_, _, _)
WriteChars(ctx, string, i) ==
  IF ctx.out # "ok" \/ i > Len(string) THEN ctx
  ELSE WriteChars(WriteCharacterCtx(ctx, <<string[i]>>), string, i + 1)

\* LCD.write_string
WriteStringCtx(ctx, string) ==
  IF ctx.out # "ok" THEN ctx
  ELSE IF ~IsStr(string) THEN Raise(ctx, "LCDException")
  ELSE WriteChars(ctx, string, 1)

\* mutant of PackLine: a word that fills the line exactly is pushed to the next row
RECURSIVE PackLineStrict(_, _, _, _)
PackLineStrict(words, words_idx, current_line, ncols) ==
  IF words_idx < Len(words) /\ Len(current_line) + Len(words[words_idx + 1]) < ncols
  THEN PackLineStrict(words, words_idx + 1, current_line \o words[words_idx + 1] \o <<32>>, ncols)
  ELSE [line |-> current_line, idx |-> words_idx]

\* the inner while loop of LCD.write; words_idx is 0-based as in the code
RECURSIVE PackLine(_, _, _, _)
PackLine(words, words_idx, current_line, ncols) ==
  IF words_idx < Len(words) /\ Len(current_line) + Len(words[words_idx + 1]) <= ncols
  THEN PackLine(words, words_idx + 1, current_line \o words[words_idx + 1] \o <<32>>, ncols)
  ELSE [line |-> current_line, idx |-> words_idx]

\* the outer while loop of LCD.write; the result carries the return value
\* as <<row>>, or <<>> when an exception leaves the call
RECURSIVE WriteLoop(_, _, _, _, _, _)
WriteLoop(ctx, nrows, ncols, words, words_idx, row) ==
  IF ~(row < nrows) THEN [ctx |-> ctx, ret |-> <<row>>]
  ELSE
    LET p  == PackLine(words, words_idx, <<>>, ncols)
        c1 == SetCursorCtx(ctx, ncols, row, 0)
    IN  IF c1.out # "ok" THEN [ctx |-> c1, ret |-> <<>>]
        ELSE IF Len(p.line) > 0
        THEN LET c2 == WriteStringCtx(c1, RStrip(p.line))
             IN  IF c2.out # "ok" THEN [ctx |-> c2, ret |-> <<>>]
                 ELSE WriteLoop(c2, nrows, ncols, words, p.idx, row + 1)
        ELSE IF p.idx < Len(words)
        THEN LET w  == words[p.idx + 1]
                 c2 == WriteStringCtx(c1, Take(w, ncols))
                 words2 == [words EXCEPT ![p.idx + 1] = Drop(w, ncols)]
             IN  IF c2.out # "ok" THEN [ctx |-> c2, ret |-> <<>>]
                 ELSE WriteLoop(c2, nrows, ncols, words2, p.idx, row + 1)
        ELSE [ctx |-> c1, ret |-> <<row>>]

\* LCD.write
WriteCtx(ctx, nrows, ncols, string, row) ==
  IF ~IsStr(string) THEN [ctx |-> Raise(ctx, "LCDException"), ret |-> <<>>]
  ELSE WriteLoop(ctx, nrows, ncols, Split(string), 0, row)

\* mutant of FloorDiv2: division rounding toward zero
FloorDiv2Trunc(x) == IF x >= 0 THEN x \div 2 ELSE -((-x) \div 2)

\* floor division by two, Python's (x) // 2
FloorDiv2(x) == IF x >= 0 THEN x \div 2 ELSE -((1 - x) \div 2)

\* LCD.write_center
WriteCenterCtx(ctx, nrows, ncols, string, row) ==
  IF ~IsStr(string) THEN Raise(ctx, "LCDException")
  ELSE IF ~(0 <= row /\ row < nrows) THEN Raise(ctx, "LCDException")
  ELSE WriteStringCtx(SetCursorCtx(ctx, ncols, row, FloorDiv2(ncols - Len(string))), string)

\* mutant of WriteLeftCtx: the string is written from the current position
WriteLeftCtxNoCursor(ctx, nrows, ncols, string, row) ==
  IF ~IsStr(string) THEN Raise(ctx, "LCDException")
  ELSE IF ~(0 <= row /\ row < nrows) THEN Raise(ctx, "LCDException")
  ELSE WriteStringCtx(ctx, string)

\* LCD.write_left
WriteLeftCtx(ctx, nrows, ncols, string, row) ==
  IF ~IsStr(string) THEN Raise(ctx, "LCDException")
  ELSE IF ~(0 <= row /\ row < nrows) THEN Raise(ctx, "LCDException")
  ELSE WriteStringCtx(SetCursorCtx(ctx, ncols, row, 0), string)

\* LCD.write_right
WriteRightCtx(ctx, nrows, ncols, string, row) ==
  IF ~IsStr(string) THEN Raise(ctx, "LCDException")
  ELSE IF ~(0 <= row /\ row < nrows) THEN Raise(ctx, "LCDException")
  ELSE WriteStringCtx(SetCursorCtx(ctx, ncols, row, ncols - Len(string)), string)

\* LCD.__update_display_control, on the flags given
UpdateDisplayControl(ctx, d, c, b) ==
  LET dc1 == LCD_DISPLAYCONTROL
      dc2 == IF d THEN BitOr(dc1, LCD_DISPLAYON) ELSE dc1
      dc3 == IF b THEN BitOr(dc2, LCD_BLINKON) ELSE dc2
      dc4 == IF c THEN BitOr(dc3, LCD_CURSORON) ELSE dc3
  IN  SendByte(ctx, dc4, LCD_COMMAND)

\* mutant of ConstructCtx: the switch to 4-bit mode is sent before the resets
ConstructCtxModeFirst(fail) ==
  LET c1 == SendByte(NewCtx(fail), 2, LCD_COMMAND)
      c2 == SendByte(c1, 3, LCD_COMMAND)
      c3 == SendByte(c2, 3, LCD_COMMAND)
      c4 == SendByte(c3, 3, LCD_COMMAND)
      c5 == SendByte(c4, BitOr(LCD_ENTRYMODESET, LCD_ENTRYLEFT), LCD_COMMAND)
      c6 == UpdateDisplayControl(c5, TRUE, FALSE, FALSE)
  IN  SendByte(c6, LCD_CLEARDISPLAY, LCD_COMMAND)

\* the sends of LCD.__init__ (lines 59-71), on a transport that fails at its
\* fail-th write (0: never)
ConstructCtx(fail) ==
  LET c1 == SendByte(NewCtx(fail), 3, LCD_COMMAND)
      c2 == SendByte(c1, 3, LCD_COMMAND)
      c3 == SendByte(c2, 3, LCD_COMMAND)
      c4 == SendByte(c3, 2, LCD_COMMAND)
      c5 == SendByte(c4, BitOr(LCD_ENTRYMODESET, LCD_ENTRYLEFT), LCD_COMMAND)
      c6 == UpdateDisplayControl(c5, TRUE, FALSE, FALSE)
  IN  SendByte(c6, LCD_CLEARDISPLAY, LCD_COMMAND)

\* the sends of LCD.__init__ when the transport does not fail
InitCtx == ConstructCtx(0)

\* LCD.__init__ got as far as assigning the flags (lines 65-67)
FlagsAssigned(fail) ==
  SendByte(SendByte(SendByte(SendByte(SendByte(NewCtx(fail), 3, LCD_COMMAND),
    3, LCD_COMMAND), 3, LCD_COMMAND), 2, LCD_COMMAND),
    BitOr(LCD_ENTRYMODESET, LCD_ENTRYLEFT), LCD_COMMAND).out = "ok"

(***************************************************************************)
(* Inputs                                                                  *)
(***************************************************************************)
\* the display geometries LCD(...) is constructed with: <<rows, cols>>
Geometries == {<<2, 3>>, <<4, 20>>, <<5, 1>>, <<1, MaxCols>>}

\* 'A' and ' '
Alphabet == {65, 32}

SeqsUpTo(S, n) == UNION {[1 .. k -> S] : k \in 0 .. n}

\* '...Then, shalt thou count to three.' (src/example.py)
ExampleText ==
  <<46, 46, 46, 84, 104, 101, 110, 44, 32, 115, 104, 97, 108, 116, 32,
    116, 104, 111, 117, 32, 99, 111, 117, 110, 116, 32, 116, 111, 32,
    116, 104, 114, 101, 101, 46>>

\* 'A\tB', 'AB  BA A', 'AAAA A', a 30-character word, chr(0x141), 'A' + chr(0x141),
\* a non-str argument, and the text of the example
SpecialTexts ==
  { <<65, 9, 66>>, <<65, 66, 32, 32, 66, 65, 32, 65>>, <<65, 65, 65, 65, 32, 65>>,
    [i \in 1 .. 30 |-> 64 + i], <<321>>, <<65, 321>>, NotAStr, ExampleText }

Texts == SeqsUpTo(Alphabet, MaxLen) \cup SpecialTexts

\* arguments of write_character
Characters == {<<c>> : c \in 0 .. MaxCodePoint} \cup {<<>>, <<65, 65>>, <<321>>, NotAStr}

RowArgs == -1 .. 5

ColArgs == -1 .. (MaxCols + 1)

FailArgs == 0 .. MaxFail

\* the transport writes of construction that may fail (0: none does)
ConstructFailArgs ==
  {f \in 0 .. Len(InitCtx.ev) : f = 0 \/ ConstructCtx(f).out # "ok"}

NoText == <<>>

Call(op, text, row, col, val, fail) ==
  [op |-> op, text |-> text, row |-> row, col |-> col, val |-> val, fail |-> fail]

(***************************************************************************)
(* Init: the object LCD.__init__ returns, or, when the transport fails     *)
(* during construction, the exception that leaves __init__: no object is   *)
(* returned then (pc = "failed") and no method can be called on it.  The   *)
(* flags of an object whose construction failed before lines 65-67 do not  *)
(* exist; they are shown as FALSE.  The level of the enable output before  *)
(* the first write is not set by the driver: either level.                 *)
(***************************************************************************)
Init ==
  /\ \E g \in Geometries : rows = g[1] /\ cols = g[2]
  /\ \E f \in ConstructFailArgs :
       /\ display_on = FlagsAssigned(f)
       /\ blink_on = FALSE
       /\ cursor_on = FALSE
       /\ pc = IF ConstructCtx(f).out = "ok" THEN "returned" ELSE "failed"
       /\ call = Call("__init__", NoText, 0, 0, FALSE, f)
       /\ outcome = ConstructCtx(f).out
       /\ ret = <<>>
       /\ log = ConstructCtx(f).ev
       /\ \E e \in BOOLEAN : enable = EnableAfter(ConstructCtx(f).ev, e)

(***************************************************************************)
(* Actions: one per public method                                          *)
(***************************************************************************)
Geometry == UNCHANGED <<rows, cols>>
Flags == UNCHANGED <<display_on, cursor_on, blink_on>>

\* what a call leaves behind: its record, its bus traffic and its outcome
Returns(c, ctx, r) ==
  /\ pc' = "returned"
  /\ call' = c
  /\ outcome' = ctx.out
  /\ ret' = r
  /\ log' = ctx.ev
  /\ enable' = EnableAfter(ctx.ev, enable)

\* the caller takes the result and goes on to its next call (src/example.py)
NextCall ==
  /\ pc = "returned"
  /\ pc' = "idle"
  /\ call' = Call("none", NoText, 0, 0, FALSE, 0)
  /\ outcome' = "ok"
  /\ ret' = <<>>
  /\ log' = <<>>
  /\ UNCHANGED enable
  /\ Geometry /\ Flags

SetCursor ==
  /\ pc = "idle"
  /\ \E row \in RowArgs, col \in ColArgs, f \in FailArgs :
       Returns(Call("set_cursor", NoText, row, col, FALSE, f),
               SetCursorCtx(NewCtx(f), cols, row, col), <<>>)
  /\ Geometry /\ Flags

WriteCharacter ==
  /\ pc = "idle"
  /\ \E ch \in Characters, f \in FailArgs :
       Returns(Call("write_character", ch, 0, 0, FALSE, f),
               WriteCharacterCtx(NewCtx(f), ch), <<>>)
  /\ Geometry /\ Flags

Write ==
  /\ pc = "idle"
  /\ \E s \in Texts, row \in RowArgs, f \in FailArgs :
       LET r == WriteCtx(NewCtx(f), rows, cols, s, row)
       IN  Returns(Call("write", s, row, 0, FALSE, f), r.ctx, r.ret)
  /\ Geometry /\ Flags

WriteString ==
  /\ pc = "idle"
  /\ \E s \in Texts, f \in FailArgs :
       Returns(Call("write_string", s, 0, 0, FALSE, f),
               WriteStringCtx(NewCtx(f), s), <<>>)
  /\ Geometry /\ Flags

WriteCenter ==
  /\ pc = "idle"
  /\ \E s \in Texts, row \in RowArgs, f \in FailArgs :
       Returns(Call("write_center", s, row, 0, FALSE, f),
               WriteCenterCtx(NewCtx(f), rows, cols, s, row), <<>>)
  /\ Geometry /\ Flags

WriteLeft ==
  /\ pc = "idle"
  /\ \E s \in Texts, row \in RowArgs, f \in FailArgs :
       Returns(Call("write_left", s, row, 0, FALSE, f),
               WriteLeftCtx(NewCtx(f), rows, cols, s, row), <<>>)
  /\ Geometry /\ Flags

WriteRight ==
  /\ pc = "idle"
  /\ \E s \in Texts, row \in RowArgs, f \in FailArgs :
       Returns(Call("write_right", s, row, 0, FALSE, f),
               WriteRightCtx(NewCtx(f), rows, cols, s, row), <<>>)
  /\ Geometry /\ Flags

Clear ==
  /\ pc = "idle"
  /\ \E f \in FailArgs :
       Returns(Call("clear", NoText, 0, 0, FALSE, f),
               SendByte(NewCtx(f), LCD_CLEARDISPLAY, LCD_COMMAND), <<>>)
  /\ Geometry /\ Flags

ReturnHome ==
  /\ pc = "idle"
  /\ \E f \in FailArgs :
       Returns(Call("return_home", NoText, 0, 0, FALSE, f),
               SendByte(NewCtx(f), LCD_RETURNHOME, LCD_COMMAND), <<>>)
  /\ Geometry /\ Flags

\* LCD.display_on(value), called as `op`
DisplayOnAs(op, value, f) ==
  /\ display_on' = value
  /\ UNCHANGED <<cursor_on, blink_on>>
  /\ Returns(Call(op, NoText, 0, 0, value, f),
             UpdateDisplayControl(NewCtx(f), value, cursor_on, blink_on), <<>>)

\* mutant of BlinkOnAs: enabling blink leaves the cursor flag alone
BlinkOnAsUncoupled(op, value, f) ==
  /\ blink_on' = value
  /\ UNCHANGED <<cursor_on, display_on>>
  /\ Returns(Call(op, NoText, 0, 0, value, f),
             UpdateDisplayControl(NewCtx(f), display_on, cursor_on, value), <<>>)

\* mutant of BlinkOnAs: the cursor flag follows the blink flag both ways
BlinkOnAsSymmetric(op, value, f) ==
  /\ blink_on' = value
  /\ cursor_on' = value
  /\ UNCHANGED display_on
  /\ Returns(Call(op, NoText, 0, 0, value, f),
             UpdateDisplayControl(NewCtx(f), display_on, value, value), <<>>)

\* LCD.blink_on(value), called as `op`
BlinkOnAs(op, value, f) ==
  /\ blink_on' = value
  /\ cursor_on' = IF value THEN TRUE ELSE cursor_on
  /\ UNCHANGED display_on
  /\ Returns(Call(op, NoText, 0, 0, value, f),
             UpdateDisplayControl(NewCtx(f), display_on, cursor_on', value), <<>>)

\* LCD.cursor_on(value), called as `op`
CursorOnAs(op, value, f) ==
  /\ cursor_on' = value
  /\ UNCHANGED <<display_on, blink_on>>
  /\ Returns(Call(op, NoText, 0, 0, value, f),
             UpdateDisplayControl(NewCtx(f), display_on, value, blink_on), <<>>)

DisplayOn ==
  /\ pc = "idle"
  /\ \E value \in BOOLEAN, f \in FailArgs : DisplayOnAs("display_on", value, f)
  /\ Geometry

BlinkOn ==
  /\ pc = "idle"
  /\ \E value \in BOOLEAN, f \in FailArgs : BlinkOnAs("blink_on", value, f)
  /\ Geometry

CursorOn ==
  /\ pc = "idle"
  /\ \E value \in BOOLEAN, f \in FailArgs : CursorOnAs("cursor_on", value, f)
  /\ Geometry

DisplayOff ==
  /\ pc = "idle"
  /\ \E f \in FailArgs : DisplayOnAs("display_off", FALSE, f)
  /\ Geometry

CursorOff ==
  /\ pc = "idle"
  /\ \E f \in FailArgs : CursorOnAs("cursor_off", FALSE, f)
  /\ Geometry

BlinkOff ==
  /\ pc = "idle"
  /\ \E f \in FailArgs : BlinkOnAs("blink_off", FALSE, f)
  /\ Geometry

Next ==
  \/ NextCall
  \/ SetCursor
  \/ WriteCharacter
  \/ Write
  \/ WriteString
  \/ WriteCenter
  \/ WriteLeft
  \/ WriteRight
  \/ Clear
  \/ ReturnHome
  \/ DisplayOn
  \/ BlinkOn
  \/ CursorOn
  \/ DisplayOff
  \/ CursorOff
  \/ BlinkOff

Spec == Init /\ [][Next]_vars

TypeOK ==
  /\ <<rows, cols>> \in Geometries
  /\ display_on \in BOOLEAN /\ cursor_on \in BOOLEAN /\ blink_on \in BOOLEAN
  /\ pc \in {"idle", "returned", "failed"}
  /\ outcome \in {"ok", "LCDException", "OSError"}
  /\ Len(ret) <= 1
  /\ enable \in BOOLEAN

(***************************************************************************)
(* The display side, used to state the properties: what the controller     *)
(* sees of the bus traffic.  The HD44780U latches the four data lines and  *)
(* RS on the falling edge of the enable line; two latched nibbles make a   *)
(* byte; a command byte with bit 7 set addresses DDRAM and the character   *)
(* bytes that follow it are the text written there.                        *)
(***************************************************************************)
WriteEvents(l) == SelectSeq(l, LAMBDA e : e.kind = "write")

\* the bytes the transport accepted, in order
Wire(l) ==
  LET w == WriteEvents(l)
  IN  [i \in 1 .. Len(w) |-> w[i].v]

\* the transport writes attempted, accepted or not
Attempts(l) == SelectSeq(l, LAMBDA e : e.kind \in {"write", "failed"})

EnableHigh(b) == (b \div 4) % 2 = 1

\* the writes on which the enable line falls: the nibble then latched
FallingEdges(w) ==
  SelectSeq([i \in 1 .. (Len(w) - 1) |-> i],
            LAMBDA i : EnableHigh(w[i]) /\ ~EnableHigh(w[i + 1]))

Latched(w) ==
  LET e == FallingEdges(w)
  IN  [k \in 1 .. Len(e) |-> [rs |-> w[e[k]] % 2, d |-> w[e[k]] \div 16]]

PairUp(n) ==
  [k \in 1 .. (Len(n) \div 2) |-> [rs |-> n[2 * k - 1].rs, v |-> 16 * n[2 * k - 1].d + n[2 * k].d]]

\* the command and character bytes the controller receives
DeviceBytes(l) == PairUp(Latched(Wire(l)))

\* <<[addr, text]>>: each DDRAM address set, with the characters written after it
Segments(b) ==
  LET a == SelectSeq([i \in 1 .. Len(b) |-> i], LAMBDA i : b[i].rs = 0 /\ b[i].v >= 128)
      upto(j) == IF j < Len(a) THEN a[j + 1] - 1 ELSE Len(b)
      chars(j) == SelectSeq(SubSeq(b, a[j] + 1, upto(j)), LAMBDA x : x.rs = 1)
  IN  [j \in 1 .. Len(a) |->
         [addr |-> b[a[j]].v - 128, text |-> [k \in 1 .. Len(chars(j)) |-> chars(j)[k].v]]]

\* the rows of the last call that received characters
Lines == SelectSeq(Segments(DeviceBytes(log)), LAMBDA s : s.text # <<>>)

\* DDRAM address of the first cell of a row (HD44780U data sheet)
RowAddress(r) == CASE r = 0 -> 0 [] r = 1 -> 64 [] r = 2 -> 20 [] r = 3 -> 84 [] OTHER -> -1

Done(op) == pc = "returned" /\ call.op = op

\* the transport accepted every write of the last call
NoBusFault == call.fail = 0

\* every character of the text is a character code of the display (one byte)
ByteText(s) == IsStr(s) /\ \A i \in 1 .. Len(s) : s[i] \in 0 .. 255

(***************************************************************************)
(* Reference word wrap, stated on word lists                               *)
(***************************************************************************)
RECURSIVE JoinWords(_, _)
JoinWords(ws, k) ==
  IF k = 0 THEN <<>>
  ELSE IF k = 1 THEN ws[1]
  ELSE JoinWords(ws, k - 1) \o <<32>> \o ws[k]

\* the number of leading words of ws that fit, space separated, in n columns
GreedyCount(ws, n) ==
  CHOOSE k \in 0 .. Len(ws) :
    /\ Len(JoinWords(ws, k)) <= n
    /\ k = Len(ws) \/ Len(JoinWords(ws, k + 1)) > n

GreedyPack(ws, n) == JoinWords(ws, GreedyCount(ws, n))

\* the text a row gets from the words ws still to be written
RefLine(ws, n) ==
  IF Len(ws[1]) > n THEN SubSeq(ws[1], 1, n) ELSE GreedyPack(ws, n)

\* the words still to be written after that row
RefRest(ws, n) ==
  IF Len(ws[1]) > n THEN <<SubSeq(ws[1], n + 1, Len(ws[1]))>> \o Tail(ws)
  ELSE SubSeq(ws, GreedyCount(ws, n) + 1, Len(ws))

\* the words still to be written after i rows
RECURSIVE Remaining(_, _, _)
Remaining(ws, n, i) ==
  IF i = 0 \/ ws = <<>> THEN ws ELSE Remaining(RefRest(ws, n), n, i - 1)

RECURSIVE Concat(_)
Concat(ws) == IF ws = <<>> THEN <<>> ELSE ws[1] \o Concat(Tail(ws))

NoSpaces(s) == SelectSeq(s, LAMBDA c : c # 32)

\* a completed write(text, start_row) whose text the display can show
WroteText ==
  /\ Done("write") /\ ByteText(call.text) /\ NoBusFault
  /\ 0 <= call.row /\ call.row < rows

CallWords == Split(call.text)

\* every word has been written, in order, when write returns before the
\* last row; L are the rows written
AllEmitted(L) ==
  (outcome = "ok" /\ ret # <<>> /\ ret[1] < rows)
    => Concat([i \in 1 .. Len(L) |-> NoSpaces(L[i].text)]) = Concat(CallWords)

C2_AsClaimed ==
  (\/ Done("write_character") /\ IsStr(call.text) /\ Len(call.text) = 1
        /\ call.text[1] > 255
   \/ Done("set_cursor") /\ call.row \in 0 .. 3 /\ 0 <= call.col /\ call.col < cols
        /\ 128 + RowAddress(call.row) + call.col > 255)
    => outcome = "LCDException" /\ Attempts(log) = <<>>

(***************************************************************************)
(* C3 as claimed: one send_byte call produces exactly two transport        *)
(* writes, with bit 3 set, bit 0 the mode, carrying the high nibble and    *)
(* the low nibble shifted left by 4.                                       *)
(***************************************************************************)
\* the calls that are one send_byte, with the value and the mode they send
OneSend ==
  /\ pc = "returned" /\ NoBusFault
  /\ \/ call.op = "write_character" /\ IsStr(call.text) /\ Len(call.text) = 1
          /\ call.text[1] \in 0 .. 255
     \/ call.op \in {"clear", "return_home"}
     \/ call.op = "set_cursor" /\ call.row \in 0 .. 3 /\ 0 <= call.col /\ call.col < cols
          /\ RowAddress(call.row) + call.col <= 127

SentValue ==
  CASE call.op = "write_character" -> call.text[1]
    [] call.op = "clear" -> 1
    [] call.op = "return_home" -> 2
    [] call.op = "set_cursor" -> 128 + RowAddress(call.row) + call.col

SentMode == IF call.op = "write_character" THEN 1 ELSE 0

HighFrame == 16 * (SentValue \div 16) + 8 + SentMode
LowFrame == 16 * (SentValue % 16) + 8 + SentMode

C3_AsClaimed ==
  OneSend => outcome = "ok" /\ Wire(log) = <<HighFrame, LowFrame>>

(***************************************************************************)
(* C3 amended: one send_byte call of a value in 0..255 produces exactly    *)
(* six transport writes, two nibble frames each written with the enable    *)
(* bit 0, 1, 0: every write has bit 3 set and bit 0 equal to the mode, the *)
(* first three carry the high nibble of the value in bits 7..4 and the     *)
(* last three its low nibble shifted left by 4.                            *)
(***************************************************************************)
C3_SendByteFrames ==
  OneSend =>
    /\ outcome = "ok"
    /\ Wire(log) = <<HighFrame, HighFrame + 4, HighFrame, LowFrame, LowFrame + 4, LowFrame>>
    /\ \A i \in 1 .. Len(Wire(log)) :
         (Wire(log)[i] \div 8) % 2 = 1 /\ Wire(log)[i] % 2 = SentMode

C3_Witness ==
  Done("write_character") /\ call.text = <<165>> /\ outcome = "ok"
    /\ Wire(log) = <<169, 173, 169, 89, 93, 89>>
(***************************************************************************)
(* C4 as claimed: in every reachable state blink_on implies cursor_on.     *)
(***************************************************************************)
C4_AsClaimed == blink_on => cursor_on

(***************************************************************************)
(* C4 amended: every blink_on(true) call leaves cursor_on = true, and      *)
(* blink_on = true with cursor_on = false arises only from a               *)
(* cursor_on(false) or cursor_off() call made while blink is on; until     *)
(* such a call blink_on implies cursor_on.                                 *)
(***************************************************************************)
BlinkWithoutCursor == blink_on /\ ~cursor_on

C4_BlinkCoupling ==
  [][ /\ (pc' = "returned" /\ call'.op = "blink_on" /\ call'.val) => cursor_on'
      /\ (~BlinkWithoutCursor /\ BlinkWithoutCursor')
           => (call'.op \in {"cursor_on", "cursor_off"} /\ ~call'.val /\ blink_on) ]_vars

C4_Witness ==
  Done("blink_on") /\ call.val /\ blink_on /\ cursor_on /\ outcome = "ok"
    /\ DeviceBytes(log) = <<[rs |-> 0, v |-> 8 + (IF display_on THEN 4 ELSE 0) + 3]>>

(***************************************************************************)
(* C5: from any flag state, blink_on(true) leaves cursor_on = true (and    *)
(* blink_on = true); blink_off() or blink_on(false) sets blink_on = false  *)
(* and leaves cursor_on and display_on as they were, so cursor_on is still *)
(* true when it follows blink_on(true).  Between calls no flag changes.    *)
(***************************************************************************)
C5_BlinkOnThenOff ==
  [][ /\ (pc' = "returned" /\ call'.op = "blink_on" /\ call'.val)
           => (blink_on' /\ cursor_on' /\ display_on' = display_on)
      /\ (pc' = "returned" /\ (call'.op = "blink_off" \/ (call'.op = "blink_on" /\ ~call'.val)))
           => (~blink_on' /\ cursor_on' = cursor_on /\ display_on' = display_on)
      /\ (pc' = "idle")
           => (blink_on' = blink_on /\ cursor_on' = cursor_on /\ display_on' = display_on) ]_vars

C5_Witness ==
  Done("blink_off") /\ ~blink_on /\ cursor_on /\ outcome = "ok"
    /\ DeviceBytes(log) = <<[rs |-> 0, v |-> 8 + (IF display_on THEN 4 ELSE 0) + 2]>>

(***************************************************************************)
(* C6 as claimed: every row that receives text gets, at column 0 of that   *)
(* row, exactly the greedy pack of the words not yet written (the longest  *)
(* run of leading words that fits, space separated, in cols columns); no   *)
(* line is longer than cols; the words come in order, none skipped or      *)
(* repeated while rows remain.                                             *)
(***************************************************************************)
C6_AsClaimed ==
  WroteText =>
    LET L == Lines
    IN  /\ \A i \in 1 .. Len(L) :
             /\ L[i].addr = RowAddress(call.row + i - 1)
             /\ L[i].text = GreedyPack(Remaining(CallWords, cols, i - 1), cols)
             /\ Len(L[i].text) <= cols
        /\ AllEmitted(L)

(***************************************************************************)
(* C6 amended: every row that receives text and whose first not yet        *)
(* written word is at most cols long gets, at column 0 of that row,        *)
(* exactly the greedy pack of the words not yet written; a row whose first *)
(* remaining word is longer than cols gets characters of that word only.   *)
(* No line is longer than cols, and the words come in order, none skipped  *)
(* or repeated while rows remain.                                          *)
(***************************************************************************)
C6_GreedyPack ==
  WroteText =>
    LET L == Lines
    IN  /\ \A i \in 1 .. Len(L) :
             LET R == Remaining(CallWords, cols, i - 1)
             IN  /\ L[i].addr = RowAddress(call.row + i - 1)
                 /\ R # <<>>
                 /\ Len(R[1]) <= cols => L[i].text = GreedyPack(R, cols)
                 /\ Len(R[1]) > cols => L[i].text = SubSeq(R[1], 1, Len(L[i].text))
                 /\ Len(L[i].text) <= cols
        /\ AllEmitted(L)

\* 'A', 'A A' on two rows of three columns
C6_Witness ==
  WroteText /\ rows = 2 /\ cols = 3 /\ call.row = 0 /\ call.text = <<65, 32, 65, 32, 65>>
    /\ outcome = "ok" /\ Len(Lines) = 2
    /\ Lines[1].text = <<65, 32, 65>> /\ Lines[2].text = <<65>>

(***************************************************************************)
(* C7 as claimed: write returns start_row plus the number of rows that     *)
(* received characters; start_row for empty or whitespace-only text; rows  *)
(* when the text fills through the last row; and start_row <= r <= rows    *)
(* for every start_row in [0, rows].                                       *)
(***************************************************************************)
C7_AsClaimed ==
  (Done("write") /\ ByteText(call.text) /\ NoBusFault /\ 0 <= call.row /\ call.row <= rows)
    => /\ outcome = "ok"
       /\ ret = <<call.row + Len(Lines)>>
       /\ (\A i \in 1 .. Len(call.text) : call.text[i] \in WhiteSpace) => ret = <<call.row>>
       /\ call.row <= ret[1] /\ ret[1] <= rows

(***************************************************************************)
(* C8: a word longer than cols at the start of a row is split: the row     *)
(* gets exactly its first cols characters, the rest is the first word of   *)
(* the next row's packing (split again, or greedily packed with the words  *)
(* that follow); no character is lost or duplicated while rows remain.     *)
(***************************************************************************)
C8_SplitLongWord ==
  WroteText =>
    LET L == Lines
    IN  /\ \A i \in 1 .. Len(L) :
             LET R == Remaining(CallWords, cols, i - 1)
             IN  (R # <<>> /\ Len(R[1]) > cols) =>
                   /\ L[i].text = SubSeq(R[1], 1, cols)
                   /\ i < Len(L) =>
                        LET R2 == <<SubSeq(R[1], cols + 1, Len(R[1]))>> \o Tail(R)
                        IN  L[i + 1].text =
                              IF Len(R2[1]) > cols THEN SubSeq(R2[1], 1, cols)
                              ELSE GreedyPack(R2, cols)
        /\ AllEmitted(L)

\* 'AAAA A' on two rows of three columns: 'AAA', then 'A A'
C8_Witness ==
  WroteText /\ rows = 2 /\ cols = 3 /\ call.row = 0 /\ call.text = <<65, 65, 65, 65, 32, 65>>
    /\ outcome = "ok" /\ ret = <<2>> /\ Len(Lines) = 2
    /\ Lines[1].text = <<65, 65, 65>> /\ Lines[2].text = <<65, 32, 65>>

(***************************************************************************)
(* C9 as claimed: for any geometry and start_row in [0, rows), when write  *)
(* runs out of rows while words remain it returns rows and raises no       *)
(* error.                                                                  *)
(***************************************************************************)
C9_AsClaimed ==
  (WroteText /\ Remaining(CallWords, cols, rows - call.row) # <<>>)
    => outcome = "ok" /\ ret = <<rows>>

(***************************************************************************)
(* C10 as claimed: for s shorter than cols that wraps to a single line,    *)
(* clear(); set_cursor(0, 0); write_string(s) puts the same bytes on the   *)
(* transport as write(s, 0).                                               *)
(***************************************************************************)
\* a completed write(s, 0) of a text shorter than cols that wraps to one line
WroteShort ==
  /\ Done("write") /\ IsStr(call.text) /\ NoBusFault /\ call.row = 0
  /\ Len(call.text) < cols
  /\ Remaining(CallWords, cols, 1) = <<>>

ClearBytes == Wire(SendByte(NewCtx(0), LCD_CLEARDISPLAY, LCD_COMMAND).ev)

CursorThenString(s) == Wire(WriteStringCtx(SetCursorCtx(NewCtx(0), cols, 0, 0), s).ev)

C10_AsClaimed ==
  WroteShort => Wire(log) = ClearBytes \o CursorThenString(call.text)

(***************************************************************************)
(* C10 amended: for s shorter than cols whose words are separated by       *)
(* single spaces, with no leading or trailing whitespace, write(s, 0) puts *)
(* on the transport the bytes of set_cursor(0, 0); write_string(s),        *)
(* without the bytes of a clear() before them, and followed, when s is not *)
(* empty and the display has more than one row, by the bytes of            *)
(* set_cursor(1, 0).                                                       *)
(***************************************************************************)
SingleSpaced(s) == s = JoinWords(Split(s), Len(Split(s)))

NextRowCursor(s) ==
  IF s # <<>> /\ rows > 1 THEN Wire(SetCursorCtx(NewCtx(0), cols, 1, 0).ev) ELSE <<>>

C10_CursorStringIsWrite ==
  (WroteShort /\ SingleSpaced(call.text))
    => /\ outcome = "ok"
       /\ Wire(log) = CursorThenString(call.text) \o NextRowCursor(call.text)

C10_Witness ==
  WroteShort /\ cols = 20 /\ call.text = <<65, 32, 65, 65>> /\ outcome = "ok"
    /\ ret = <<1>> /\ Len(Lines) = 1 /\ Lines[1].text = <<65, 32, 65, 65>>
    /\ Len(Wire(log)) = 36

(***************************************************************************)
(* C11: for a row both row checks accept and any string s, write_left      *)
(* addresses column 0, write_center column (cols - len(s)) floor-divided   *)
(* by 2 and write_right column cols - len(s), exactly as set_cursor(row,   *)
(* column) does, and then sends the characters of s in order (of each      *)
(* character the low eight bits of its code, see C2).  When that column is *)
(* outside [0, cols) the call fails with the validation error of           *)
(* set_cursor and nothing is written to the transport.                     *)
(***************************************************************************)
AlignedOp == call.op \in {"write_left", "write_center", "write_right"}

\* the column the aligned operation asks for, from the claim's formulas
AlignedColumn ==
  LET d == cols - Len(call.text)
  IN  CASE call.op = "write_left" -> 0
        [] call.op = "write_center" -> IF d % 2 = 0 THEN d \div 2 ELSE (d - 1) \div 2
        [] OTHER -> d

\* the bus traffic of set_cursor(row, col) alone, as the display decodes it
CursorBytes(row, col) == DeviceBytes(SetCursorCtx(NewCtx(0), cols, row, col).ev)

CharBytes(s) == [i \in 1 .. Len(s) |-> [rs |-> 1, v |-> s[i] % 256]]

C11_AlignedColumns ==
  (pc = "returned" /\ AlignedOp /\ IsStr(call.text) /\ NoBusFault
     /\ 0 <= call.row /\ call.row < rows /\ call.row <= 3)
    => LET D == DeviceBytes(log)
       IN  IF 0 <= AlignedColumn /\ AlignedColumn < cols
           THEN /\ outcome = "ok"
                /\ D = CursorBytes(call.row, AlignedColumn) \o CharBytes(call.text)
                /\ (RowAddress(call.row) + AlignedColumn <= 127
                      => D[1] = [rs |-> 0, v |-> 128 + RowAddress(call.row) + AlignedColumn])
           ELSE outcome = "LCDException" /\ log = <<>>

C11_Witness ==
  Done("write_center") /\ cols = 20 /\ call.row = 1 /\ call.text = <<65, 32, 65>>
    /\ outcome = "ok"
    /\ DeviceBytes(log) = <<[rs |-> 0, v |-> 200], [rs |-> 1, v |-> 65],
                            [rs |-> 1, v |-> 32], [rs |-> 1, v |-> 65]>>

(***************************************************************************)
(* C12: set_cursor(row, col) with row outside [0, 4) or col outside        *)
(* [0, cols) ends in the validation error, leaves the bus log empty (no    *)
(* transport write, no delay) and changes none of the display-control      *)
(* flags; stated of every step that is such a call.                        *)
(***************************************************************************)
RejectedCursorCall ==
  /\ pc' = "returned" /\ call'.op = "set_cursor"
  /\ call'.row < 0 \/ call'.row >= 4 \/ call'.col < 0 \/ call'.col >= cols

C12_Step ==
  RejectedCursorCall
    => /\ outcome' = "LCDException"
       /\ log' = <<>>
       /\ display_on' = display_on /\ cursor_on' = cursor_on /\ blink_on' = blink_on

C12_InvalidCursorRejected == [][C12_Step]_vars

C12_Witness ==
  Done("set_cursor") /\ cols = 20 /\ call.row = 0 /\ call.col = 20
    /\ outcome = "LCDException" /\ log = <<>>

(***************************************************************************)
(* C13 as claimed: write_center, write_left and write_right with a row     *)
(* outside [0, rows) end in the validation error without a transport       *)
(* write, and with a row inside [0, rows) they are never rejected because  *)
(* of the row: when the column is inside [0, cols) as well, the call       *)
(* succeeds.                                                               *)
(***************************************************************************)
C13_AsClaimed ==
  (pc = "returned" /\ AlignedOp /\ IsStr(call.text) /\ NoBusFault)
    => IF 0 <= call.row /\ call.row < rows
       THEN (0 <= AlignedColumn /\ AlignedColumn < cols) => outcome = "ok"
       ELSE outcome = "LCDException" /\ Attempts(log) = <<>>

(***************************************************************************)
(* C14 as claimed: in the traffic of every text-writing operation (write,  *)
(* write_string, write_character, write_center, write_left, write_right)   *)
(* a set-DDRAM command precedes the first character byte.                  *)
(***************************************************************************)
TextOp ==
  call.op \in {"write", "write_string", "write_character",
               "write_center", "write_left", "write_right"}

\* the bytes the display receives before the first character byte
BeforeFirstCharacter(b) ==
  LET chars == {i \in 1 .. Len(b) : b[i].rs = 1}
      first == CHOOSE i \in chars : \A j \in chars : i <= j
  IN  IF chars = {} THEN b ELSE SubSeq(b, 1, first - 1)

SendsCharacter(l) ==
  LET a == Attempts(l)
  IN  \E i \in 1 .. Len(a) : a[i].v % 2 = 1

C14_AsClaimed ==
  (pc = "returned" /\ TextOp /\ SendsCharacter(log))
    => LET B == BeforeFirstCharacter(DeviceBytes(log))
       IN  \E i \in 1 .. Len(B) : B[i].rs = 0 /\ B[i].v >= 128

(***************************************************************************)
(* C14 amended: write, write_center, write_left and write_right send the   *)
(* command of set_cursor(row, column) for their own row and column (column *)
(* 0 for write) before they send their first character byte; write_string  *)
(* and write_character send no command at all, their characters go to the  *)
(* position the cursor was left at.                                        *)
(***************************************************************************)
CursorOp == call.op \in {"write", "write_center", "write_left", "write_right"}

OwnColumn == IF call.op = "write" THEN 0 ELSE AlignedColumn

C14_CursorBeforeText ==
  /\ (pc = "returned" /\ CursorOp /\ SendsCharacter(log))
       => LET D == DeviceBytes(log)
          IN  /\ Len(D) >= 2
              /\ BeforeFirstCharacter(D) = CursorBytes(call.row, OwnColumn)
              /\ Len(CursorBytes(call.row, OwnColumn)) = 1
              /\ (RowAddress(call.row) + OwnColumn <= 127
                    => D[1] = [rs |-> 0, v |-> 128 + RowAddress(call.row) + OwnColumn])
  /\ (pc = "returned" /\ call.op \in {"write_string", "write_character"})
       => LET a == Attempts(log)
          IN  \A i \in 1 .. Len(a) : a[i].v % 2 = 1

C14_Witness ==
  Done("write_left") /\ cols = 20 /\ call.row = 1 /\ call.text = <<65>>
    /\ DeviceBytes(log) = <<[rs |-> 0, v |-> 192], [rs |-> 1, v |-> 65]>>

(***************************************************************************)
(* C15: a construction that completes has sent, in this order and nothing  *)
(* else, the commands 0x03, 0x03, 0x03, 0x02, 0x06 (entry mode, left to    *)
(* right), 0x0C (display on, cursor off, blink off) and 0x01 (clear), and  *)
(* leaves display_on = true, cursor_on = false, blink_on = false.  A       *)
(* construction that the transport interrupts has sent a proper prefix of  *)
(* these commands and yields no object: no operation follows it.  Every    *)
(* operation is a step from an object whose construction completed, and    *)
(* construction happens once.                                              *)
(***************************************************************************)
InitCommands ==
  <<[rs |-> 0, v |-> 3], [rs |-> 0, v |-> 3], [rs |-> 0, v |-> 3], [rs |-> 0, v |-> 2],
    [rs |-> 0, v |-> 6], [rs |-> 0, v |-> 12], [rs |-> 0, v |-> 1]>>

IsProperPrefix(a, b) == Len(a) < Len(b) /\ a = SubSeq(b, 1, Len(a))

C15_State ==
  /\ (call.op = "__init__" /\ outcome = "ok")
       => /\ pc = "returned"
          /\ DeviceBytes(log) = InitCommands
          /\ Len(Attempts(log)) = 6 * Len(InitCommands)
          /\ display_on /\ ~cursor_on /\ ~blink_on
  /\ (call.op = "__init__" /\ outcome # "ok")
       => /\ pc = "failed"
          /\ IsProperPrefix(DeviceBytes(log), InitCommands)
  /\ pc = "failed" => call.op = "__init__"

C15_Step == pc # "failed" /\ call'.op # "__init__"

C15_Construction == []C15_State /\ [][C15_Step]_vars

C15_Witness ==
  Done("__init__") /\ outcome = "ok" /\ DeviceBytes(log) = InitCommands
    /\ display_on /\ ~cursor_on /\ ~blink_on

(***************************************************************************)
(* C16 as claimed: the bus log of every call is a sequence of nibble       *)
(* handshakes, each the six events write f (enable low), wait 600 us,      *)
(* write f | ENABLE, wait 600 us, write f & ~ENABLE, wait 600 us, one      *)
(* handshake ending before the next begins; and after every operation      *)
(* that completes without error the last byte written to the transport    *)
(* has the enable bit clear, that is, the enable output is low.            *)
(***************************************************************************)
IsWait(e) == e.kind = "sleep" /\ e.v = 600

IsWriteOf(e, b) == e.kind \in {"write", "failed"} /\ e.v = b

\* the k-th event of the log is the one the handshake has at that place
HandshakeEvent(l, k) ==
  LET p == (k - 1) % 6
      f == l[k - p].v
  IN  CASE p = 0 -> l[k].kind \in {"write", "failed"} /\ ~EnableHigh(l[k].v)
        [] p = 2 -> IsWriteOf(l[k], f + 4)
        [] p = 4 -> IsWriteOf(l[k], f)
        [] OTHER -> IsWait(l[k])

\* nothing follows a write the transport refused
EndsAtFailure(l) == \A k \in 1 .. Len(l) : l[k].kind = "failed" => k = Len(l)

Handshakes(l) ==
  /\ \A k \in 1 .. Len(l) : HandshakeEvent(l, k)
  /\ EndsAtFailure(l)
  /\ (l # <<>> /\ l[Len(l)].kind # "failed") => Len(l) % 12 = 0

C16_AsClaimed ==
  /\ Handshakes(log)
  /\ (Done("clear") /\ NoBusFault) => log[1].v = 8 /\ log[7].v = 24
  /\ (pc = "returned" /\ outcome = "ok") => ~enable

(***************************************************************************)
(* C16 amended: the bus log of every call is a sequence of such nibble     *)
(* handshakes, cut short only at a write the transport refuses; the high   *)
(* nibble's handshake ends before the low nibble's begins; and after every *)
(* operation that completes without error and has written to the           *)
(* transport, the last byte written has the enable bit clear.  An          *)
(* operation that writes nothing leaves the enable output as it found it.  *)
(***************************************************************************)
C16_State ==
  /\ Handshakes(log)
  /\ (Done("clear") /\ NoBusFault) => log[1].v = 8 /\ log[7].v = 24
  /\ LET w == Wire(log)
     IN  (pc = "returned" /\ outcome = "ok" /\ w # <<>>)
           => ~EnableHigh(w[Len(w)]) /\ ~enable

C16_Step == (pc' = "returned" /\ Wire(log') = <<>>) => enable' = enable

C16_NibbleHandshake == []C16_State /\ [][C16_Step]_vars

C16_Witness ==
  Done("return_home") /\ outcome = "ok" /\ ~enable
    /\ log = <<Ev("write", 8), Ev("sleep", 600), Ev("write", 12), Ev("sleep", 600),
               Ev("write", 8), Ev("sleep", 600),
               Ev("write", 40), Ev("sleep", 600), Ev("write", 44), Ev("sleep", 600),
               Ev("write", 40), Ev("sleep", 600)>>

(***************************************************************************)
(* C17 as claimed: when the transport does not fail, a call of display_on, *)
(* display_off, cursor_on, cursor_off, blink_on or blink_off sends exactly *)
(* one command byte, 0x08 | 0x04 (display_on) | 0x02 (cursor_on) | 0x01    *)
(* (blink_on) of the flags after the call; and every display-control       *)
(* command the display receives in any call (a command byte in 0x08 ..     *)
(* 0x0F) shows the driver's flags, so that the last one received always    *)
(* agrees with them.                                                       *)
(***************************************************************************)
FlagOp ==
  call.op \in {"display_on", "display_off", "cursor_on", "cursor_off", "blink_on", "blink_off"}

FlagsByte ==
  8 + (IF display_on THEN 4 ELSE 0) + (IF cursor_on THEN 2 ELSE 0) + (IF blink_on THEN 1 ELSE 0)

IsDisplayControl(b) == b.rs = 0 /\ 8 <= b.v /\ b.v <= 15

C17_AsClaimed ==
  (pc = "returned" /\ NoBusFault)
    => LET D == DeviceBytes(log)
       IN  /\ FlagOp => D = <<[rs |-> 0, v |-> FlagsByte]>>
           /\ \A i \in 1 .. Len(D) : IsDisplayControl(D[i]) => D[i].v = FlagsByte

(***************************************************************************)
(* C18: a transport write that fails ends the operation: the transport's   *)
(* error (OSError, not a validation error) is the outcome of the call,     *)
(* the refused write is the last event of the call's bus log, so that the  *)
(* byte is not written again and no nibble, enable pulse or character      *)
(* follows it, and write returns no row.  An operation ends in that error  *)
(* only when a transport write failed.                                     *)
(***************************************************************************)
FailedWrites(l) == SelectSeq(l, LAMBDA e : e.kind = "failed")

C18_FailureStops ==
  LET a == Attempts(log)
  IN  /\ FailedWrites(log) # <<>>
        => /\ outcome = "OSError"
           /\ ret = <<>>
           /\ Len(FailedWrites(log)) = 1
           /\ log[Len(log)].kind = "failed"
           /\ call.fail = Len(a)
      /\ outcome = "OSError" => FailedWrites(log) # <<>>
      /\ call.fail > 0 /\ FailedWrites(log) = <<>> => Len(a) < call.fail

C18_Witness ==
  Done("write_left") /\ call.text = <<65>> /\ call.row = 0 /\ call.fail = 3
    /\ outcome = "OSError"
    /\ log = <<Ev("write", 136), Ev("sleep", 600), Ev("write", 140), Ev("sleep", 600),
               Ev("failed", 136)>>

(***************************************************************************)
(* C19: every byte handed to the transport, in construction and in any     *)
(* call with any arguments, lies in 0 .. 255, has bit 3 (backlight) set    *)
(* and bit 1 (R/W) clear, and has bit 0 (RS) set exactly when it belongs   *)
(* to the send of a character: the RS bits of a call's transport writes    *)
(* are those of its sends, six writes a send, cut short only where the     *)
(* transport fails.                                                        *)
(***************************************************************************)
Bit(b, n) == (b \div (2 ^ n)) % 2

Rep(x, n) == [i \in 1 .. n |-> x]

\* RS of the writes of write(text, row): per row a cursor command, then the
\* characters of the row's line; a last cursor command when no word is left
RECURSIVE WriteSends(_, _)
WriteSends(ws, r) ==
  IF r < 0 \/ r >= rows \/ r > 3 THEN <<>>
  ELSE IF ws = <<>> THEN Rep(0, 6)
  ELSE Rep(0, 6) \o Rep(1, 6 * Len(RefLine(ws, cols))) \o WriteSends(RefRest(ws, cols), r + 1)

RowAccepted == 0 <= call.row /\ call.row < rows /\ call.row <= 3

\* RS of the transport writes of the call when the transport does not fail
ExpectedRS ==
  CASE call.op \in {"none"} -> <<>>
    [] call.op = "__init__" -> Rep(0, 42)
    [] call.op = "set_cursor" ->
         IF call.row \in 0 .. 3 /\ 0 <= call.col /\ call.col < cols THEN Rep(0, 6) ELSE <<>>
    [] call.op = "write_character" ->
         IF IsStr(call.text) /\ Len(call.text) = 1 THEN Rep(1, 6) ELSE <<>>
    [] call.op = "write_string" ->
         IF IsStr(call.text) THEN Rep(1, 6 * Len(call.text)) ELSE <<>>
    [] call.op = "write" ->
         IF IsStr(call.text) THEN WriteSends(CallWords, call.row) ELSE <<>>
    [] AlignedOp ->
         IF IsStr(call.text) /\ RowAccepted /\ 0 <= AlignedColumn /\ AlignedColumn < cols
         THEN Rep(0, 6) \o Rep(1, 6 * Len(call.text)) ELSE <<>>
    [] OTHER -> Rep(0, 6)

C19_ControlBits ==
  LET a == Attempts(log)
      e == ExpectedRS
  IN  /\ \A i \in 1 .. Len(a) :
            /\ a[i].v \in 0 .. 255
            /\ Bit(a[i].v, 3) = 1
            /\ Bit(a[i].v, 1) = 0
      /\ Len(a) <= Len(e)
      /\ [i \in 1 .. Len(a) |-> Bit(a[i].v, 0)] = SubSeq(e, 1, Len(a))
      /\ FailedWrites(log) = <<>> => Len(a) = Len(e)

C19_Witness ==
  Done("write") /\ cols = 3 /\ call.text = <<65, 321>> /\ call.row = 1 /\ NoBusFault
    /\ Wire(log) = <<200, 204, 200, 8, 12, 8, 73, 77, 73, 25, 29, 25, 73, 77, 73, 25, 29, 25>>

(***************************************************************************)
(* C20: write(text, start_row) ends for every text and start_row, also     *)
(* when a word is longer than cols.  Each pass of its row loop sets the    *)
(* cursor of its row and either ends the call or writes at least one       *)
(* character and moves to the next row: the passes address the rows        *)
(* start_row, start_row + 1, ... in order, every pass but the last wrote   *)
(* a character, there are at most rows - start_row of them, and a call     *)
(* that ends without error returns a row.                                  *)
(***************************************************************************)
\* the passes of the row loop, as the display sees them: the row addressed
\* and the characters written there
Passes == Segments(DeviceBytes(log))

C20_WriteTerminates ==
  (call.op = "write" /\ IsStr(call.text))
    => LET P == Passes
       IN  /\ pc = "returned"
           /\ outcome = "ok" => ret # <<>>
           /\ Len(P) <= IF call.row < rows THEN rows - call.row ELSE 0
           /\ call.row < 0 => P = <<>>
           /\ \A j \in 1 .. Len(P) :
                /\ P[j].addr = RowAddress(call.row + j - 1)
                /\ j < Len(P) => P[j].text # <<>>

C20_Witness ==
  Done("write") /\ rows = 2 /\ cols = 3 /\ call.row = 0 /\ NoBusFault
    /\ call.text = <<65, 65, 65, 65, 65>> /\ ret = <<2>>
    /\ Passes = <<[addr |-> 0, text |-> <<65, 65, 65>>], [addr |-> 64, text |-> <<65, 65>>]>>

====
